---- MODULE Spec2Model ----
(***************************************************************************)
(* dsctl: a command-line client of the BDP Console data-structures API.    *)
(* The model covers src/dsctl.py: get_config, get_token, handle_response,  *)
(* validate, promote, resolve, parse_input_file, flow and main.            *)
(*                                                                         *)
(* A run is one call of an entry point of the module: main (the CLI), or   *)
(* resolve / validate called directly with arbitrary arguments, as the     *)
(* test-suite calls them.  The remote server and the input file are the    *)
(* environment: their answers are chosen nondeterministically.             *)
(***************************************************************************)
EXTENDS Naturals, Sequences, FiniteSets, TLC

VARIABLES
    entry,   \* the entry point of this run: "main", "resolve" or "validate"
    pc,      \* the position of the run
    env_ok,  \* os.environ holds CONSOLE_ORGANIZATION_ID and CONSOLE_API_KEY
    args,    \* CLIArguments
    file,    \* what reading args.file gives
    token,   \* flow's / main's local `token`
    schema,  \* flow's local `schema`
    spec,    \* flow's local `spec`: the outcome of resolve
    http,    \* the HTTP exchanges so far, in order: request and server answer
    logs,    \* the logger.error calls so far, in order
    stdout,  \* what was written to sys.stdout, in order
    ret      \* the value returned by the entry point (main: the exit code)

vars == <<entry, pc, env_ok, args, file, token, schema, spec, http, logs, stdout, ret>>

(***************************************************************************)
(* Bounds.                                                                 *)
(***************************************************************************)
\* Longest version string drawn for a document ("1-0-0" has 5 symbols).
MaxVersionLen == 5

(***************************************************************************)
(* Python / JSON values.  A value is a record tagged by its type `k`.      *)
(* A str is a sequence of symbols; "-" is the symbol str.split cuts at.    *)
(***************************************************************************)
PyNone == [k |-> "null"]
JBool(b) == [k |-> "bool", b |-> b]
JNum(n) == [k |-> "num", n |-> n]
JStr(s) == [k |-> "str", s |-> s]
JList(l) == [k |-> "list", l |-> l]
JObj(f) == [k |-> "obj", f |-> f]
EmptyObj == JObj(<<>>)

\* bool(v): Python truthiness.
Truthy(v) ==
    CASE v.k = "null" -> FALSE
      [] v.k = "bool" -> v.b
      [] v.k = "num" -> v.n # 0
      [] v.k = "str" -> v.s # <<>>
      [] v.k = "list" -> v.l # <<>>
      [] v.k = "obj" -> DOMAIN v.f # {}
      [] OTHER -> TRUE

\* The outcome of evaluating an expression: a value, or a raised exception.
Ok(v) == [exc |-> "none", val |-> v]
Raise(e) == [exc |-> e, val |-> PyNone]

\* x[key] for a str key: only a dict can be subscripted by a str.
GetItem(x, key) ==
    IF x.k = "obj"
    THEN IF key \in DOMAIN x.f THEN Ok(x.f[key]) ELSE Raise("KeyError")
    ELSE Raise("TypeError")

\* The index of the first "-" of s, 0 when there is none.
RECURSIVE FirstDash(_, _)
FirstDash(s, i) ==
    IF i > Len(s) THEN 0
    ELSE IF s[i] = "-" THEN i
    ELSE FirstDash(s, i + 1)

\* str.split('-') on the symbols of a str.
RECURSIVE SplitDash(_)
SplitDash(s) ==
    LET i == FirstDash(s, 1) IN
    IF i = 0 THEN <<s>>
    ELSE <<SubSeq(s, 1, i - 1)>> \o SplitDash(SubSeq(s, i + 1, Len(s)))

\* version.split('-'): only a str has the method.
StrSplit(x) ==
    IF x.k = "str" THEN Ok(SplitDash(x.s)) ELSE Raise("AttributeError")

(***************************************************************************)
(* The dataclasses.  A dataclass stores its arguments as given.            *)
(***************************************************************************)
DataStructure(vendor, name, ds_format) ==
    [vendor |-> vendor, name |-> name, format |-> ds_format]

\* Version(*parts): three positional fields, anything else is a TypeError.
\* The fields hold the parts as they are: strs.
Version(parts) ==
    IF Len(parts) = 3
    THEN Ok([model |-> JStr(parts[1]), revision |-> JStr(parts[2]),
             addition |-> JStr(parts[3])])
    ELSE Raise("TypeError")

Deployment(ds, v) == [k |-> "Deployment", data_structure |-> ds, version |-> v]

\* The decimal digits of a natural number, as symbols.
DigitSyms == <<"0", "1", "2", "3", "4", "5", "6", "7", "8", "9">>

RECURSIVE Decimal(_)
Decimal(n) ==
    IF n < 10 THEN <<DigitSyms[n + 1]>>
    ELSE Decimal(n \div 10) \o <<DigitSyms[(n % 10) + 1]>>

\* format(x): a str formats as itself, an int as its decimal digits.
PyFormat(x) == IF x.k = "str" THEN x.s ELSE Decimal(x.n)

\* Version.__str__ and the "{}-{}-{}".format(...) of promote.
VersionStr(v) ==
    PyFormat(v.model) \o <<"-">> \o PyFormat(v.revision) \o <<"-">>
        \o PyFormat(v.addition)

(***************************************************************************)
(* resolve                                                                 *)
(***************************************************************************)
\* A faulty SelfOf that adapts to the shape of the document: it falls back to
\* the other path when the one the flag selects is absent.
SelfOfAdapting(data_structure, includes_meta) ==
    LET direct == GetItem(data_structure, "self")
        data == GetItem(data_structure, "data")
        nested == IF data.exc # "none" THEN data ELSE GetItem(data.val, "self")
    IN  IF includes_meta
        THEN IF nested.exc = "none" THEN nested ELSE direct
        ELSE IF direct.exc = "none" THEN direct ELSE nested

\* A faulty SelfOf that reads document.self whatever the flag.
SelfOfIgnoringFlag(data_structure, includes_meta) ==
    GetItem(data_structure, "self")

\* The `_self = ...` expression: the flag selects the path into the document.
SelfOf(data_structure, includes_meta) ==
    IF ~includes_meta
    THEN GetItem(data_structure, "self")
    ELSE LET data == GetItem(data_structure, "data") IN
         IF data.exc # "none" THEN data ELSE GetItem(data.val, "self")

\* The body of resolve's try block: a Deployment, or the exception raised.
ResolveTry(data_structure, includes_meta) ==
    IF data_structure.k # "obj" THEN Raise("TypeError") ELSE
    LET _self == SelfOf(data_structure, includes_meta) IN
    IF _self.exc # "none" THEN _self ELSE
    LET vendor == GetItem(_self.val, "vendor") IN
    IF vendor.exc # "none" THEN vendor ELSE
    LET name == GetItem(_self.val, "name") IN
    IF name.exc # "none" THEN name ELSE
    LET ds_format == GetItem(_self.val, "format") IN
    IF ds_format.exc # "none" THEN ds_format ELSE
    LET version == GetItem(_self.val, "version") IN
    IF version.exc # "none" THEN version ELSE
    LET parts == StrSplit(version.val) IN
    IF parts.exc # "none" THEN parts ELSE
    LET v == Version(parts.val) IN
    IF v.exc # "none" THEN v ELSE
    Ok(Deployment(DataStructure(vendor.val, name.val, ds_format.val), v.val))

\* resolve: the try block and its two except clauses.  `exc` is "none" when
\* resolve returns (val: a Deployment or None) and names the exception that
\* escapes otherwise.
resolve(data_structure, includes_meta) ==
    LET r == ResolveTry(data_structure, includes_meta) IN
    CASE r.exc = "none" ->
            [exc |-> "none", val |-> r.val, logs |-> <<>>]
      [] r.exc \in {"ValueError", "TypeError"} ->
            [exc |-> "none", val |-> PyNone, logs |-> <<"resolve: spec is incorrect">>]
      [] r.exc = "KeyError" ->
            [exc |-> "none", val |-> PyNone, logs |-> <<"resolve: no correct self">>]
      [] OTHER ->
            [exc |-> r.exc, val |-> PyNone, logs |-> <<>>]

(***************************************************************************)
(* The remote server: what a requests call gives.                          *)
(***************************************************************************)
\* requests raised a RequestException: the call did not complete.
NetworkError == [k |-> "RequestException"]
\* A Response: `ok` is response.ok, `body` is a JSON value or NotJson.
NotJson == [k |-> "notjson"]
Response(ok, body) == [k |-> "Response", ok |-> ok, body |-> body]

\* One HTTP exchange: the request sent and what came back.
Exchange(req, resp) == [req |-> req, resp |-> resp]

TokenUrl == "{base_url}/credentials/v2/token"
ValidationUrl == "{ds_url}/validation-requests"
DeploymentUrl == "{ds_url}/deployment-requests"

get_base_headers(auth_token) == [Authorization |-> <<"Bearer", auth_token>>]

(***************************************************************************)
(* get_token                                                               *)
(***************************************************************************)
TokenRequest ==
    [method |-> "GET", url |-> TokenUrl, headers |-> [XAPIKey |-> "{api_key}"],
     json |-> PyNone, params |-> PyNone]

\* get_token given the server's answer: the value returned and what is logged.
get_token(resp) ==
    IF resp.k = "RequestException"
    THEN [val |-> PyNone, logs |-> <<"get_token: could not contact">>]
    ELSE IF resp.body.k = "notjson"
    THEN [val |-> PyNone, logs |-> <<"get_token: not valid JSON">>]
    ELSE IF resp.body.k # "obj"
    THEN [val |-> PyNone, logs |-> <<"get_token: invalid response body">>]
    ELSE IF "accessToken" \notin DOMAIN resp.body.f
    THEN [val |-> PyNone, logs |-> <<"get_token: invalid response body">>]
    ELSE [val |-> resp.body.f["accessToken"], logs |-> <<>>]

(***************************************************************************)
(* handle_response                                                         *)
(***************************************************************************)
\* A faulty handle_response that does not look at response.ok.
handle_responseIgnoringStatus(response, action) ==
    IF response.body.k = "notjson"
    THEN [val |-> FALSE, logs |-> <<"handle_response: not valid JSON">>]
    ELSE IF response.body.k # "obj"
            \/ ~(IF "success" \in DOMAIN response.body.f
                 THEN Truthy(response.body.f["success"]) ELSE FALSE)
    THEN [val |-> FALSE, logs |-> <<action \o " failed">>]
    ELSE [val |-> TRUE, logs |-> <<>>]

\* handle_response: the value returned and what is logged.
handle_response(response, action) ==
    IF response.ok
    THEN IF response.body.k = "notjson"
         THEN [val |-> FALSE, logs |-> <<"handle_response: not valid JSON">>]
         ELSE IF response.body.k # "obj"
                 \/ ~(IF "success" \in DOMAIN response.body.f
                      THEN Truthy(response.body.f["success"]) ELSE FALSE)
         THEN [val |-> FALSE, logs |-> <<action \o " failed">>]
         ELSE [val |-> TRUE, logs |-> <<>>]
    ELSE [val |-> FALSE, logs |-> <<action \o " failed">>]

(***************************************************************************)
(* validate                                                                *)
(***************************************************************************)
EVENT == JStr(<<"event">>)
ENTITY == JStr(<<"entity">>)

\* The meta section validate adds.
Meta(stype) ==
    JObj(("hidden" :> JBool(FALSE)) @@ ("schemaType" :> stype)
         @@ ("customData" :> EmptyObj))

Wrap(meta, data) == JObj(("meta" :> meta) @@ ("data" :> data))

\* A faulty ValidateBody that adds the meta section whatever the flag.
ValidateBodyAlwaysWrapping(data_structure, stype, contains_meta) ==
    Wrap(Meta(stype), data_structure)

\* The json= argument of validate's post.
ValidateBody(data_structure, stype, contains_meta) ==
    IF ~contains_meta THEN Wrap(Meta(stype), data_structure) ELSE data_structure

ValidateRequest(data_structure, auth_token, stype, contains_meta) ==
    [method |-> "POST", url |-> ValidationUrl,
     headers |-> get_base_headers(auth_token),
     json |-> ValidateBody(data_structure, stype, contains_meta),
     params |-> PyNone]

\* A faulty BadType that lets every schema type through.
BadTypeNever(stype) == FALSE

\* `stype not in (SchemaType.EVENT, SchemaType.ENTITY)`
BadType(stype) == stype \notin {EVENT, ENTITY}

\* validate given the server's answer: the value returned, the exchanges made
\* and what is logged.
validate(data_structure, auth_token, stype, contains_meta, resp) ==
    IF BadType(stype)
    THEN [val |-> FALSE, http |-> <<>>, logs |-> <<"validate: bad type">>]
    ELSE LET req == ValidateRequest(data_structure, auth_token, stype, contains_meta) IN
         IF resp.k = "RequestException"
         THEN [val |-> FALSE, http |-> <<Exchange(req, resp)>>,
               logs |-> <<"validate: could not contact">>]
         ELSE LET h == handle_response(resp, "validation") IN
              [val |-> h.val, http |-> <<Exchange(req, resp)>>, logs |-> h.logs]

(***************************************************************************)
(* promote                                                                 *)
(***************************************************************************)
VALIDATED == JStr(<<"VALIDATED">>)
DEV == JStr(<<"DEV">>)
PROD == JStr(<<"PROD">>)

\* A faulty PromoteSource that promotes from VALIDATED whatever the target.
PromoteSourceAlwaysValidated(to_production) == VALIDATED

\* `"source": "VALIDATED" if not to_production else "DEV"`
PromoteSource(to_production) == IF ~to_production THEN VALIDATED ELSE DEV

\* `"target": "DEV" if not to_production else "PROD"`
PromoteTarget(to_production) == IF ~to_production THEN DEV ELSE PROD

\* The json= argument of promote's post.
PromoteBody(deployment, deployment_message, to_production) ==
    JObj(("name" :> deployment.data_structure.name)
         @@ ("vendor" :> deployment.data_structure.vendor)
         @@ ("format" :> deployment.data_structure.format)
         @@ ("version" :> JStr(VersionStr(deployment.version)))
         @@ ("source" :> PromoteSource(to_production))
         @@ ("target" :> PromoteTarget(to_production))
         @@ ("message" :> deployment_message))

PromoteRequest(deployment, auth_token, deployment_message, to_production, request_patch) ==
    [method |-> "POST", url |-> DeploymentUrl,
     headers |-> get_base_headers(auth_token),
     json |-> PromoteBody(deployment, deployment_message, to_production),
     params |-> [patch |-> request_patch]]

\* promote given the server's answer.
promote(deployment, auth_token, deployment_message, to_production, request_patch, resp) ==
    LET req == PromoteRequest(deployment, auth_token, deployment_message,
                              to_production, request_patch) IN
    IF resp.k = "RequestException"
    THEN [val |-> FALSE, http |-> <<Exchange(req, resp)>>,
          logs |-> <<"promote: could not contact">>]
    ELSE LET h == handle_response(resp, "promotion") IN
         [val |-> h.val, http |-> <<Exchange(req, resp)>>, logs |-> h.logs]

(***************************************************************************)
(* parse_input_file                                                        *)
(***************************************************************************)
\* Reading the file failed.
Unreadable == [k |-> "unreadable"]

\* parse_input_file: json.load of the file, None (logged) when it fails.
parse_input_file(f) ==
    IF f.k = "notjson"
    THEN [val |-> PyNone, logs |-> <<"parse_input_file: not valid JSON">>]
    ELSE IF f.k = "unreadable"
    THEN [val |-> PyNone, logs |-> <<"parse_input_file: could not read">>]
    ELSE [val |-> f, logs |-> <<>>]

(***************************************************************************)
(* The inputs of a run.                                                    *)
(***************************************************************************)
Alphabet == {"0", "1", "a", "-"}

\* Every str of at most n symbols.
Strings(n) == UNION {[1..m -> Alphabet] : m \in 0..n}

Vendor == JStr(<<"com.snowplow">>)
Name == JStr(<<"transaction">>)
Format == JStr(<<"jsonschema">>)
SelfKeys == {"vendor", "name", "format", "version"}

\* A complete `self` section with the given version.
FullSelf(version) ==
    JObj(("vendor" :> Vendor) @@ ("name" :> Name) @@ ("format" :> Format)
         @@ ("version" :> version))

\* The object o without its entry `key`.
Without(o, key) == JObj([x \in DOMAIN o.f \ {key} |-> o.f[x]])

V100 == JStr(<<"1", "-", "0", "-", "0">>)
Vaaa == JStr(<<"a", "-", "a", "-", "a">>)
V10 == JStr(<<"1", "-", "0">>)

\* Values that are not mappings.
NonMappings == {PyNone, JNum(1), JStr(<<"x">>), JList(<<JNum(1)>>)}

\* The values drawn for the `version` entry: strs, and values of other types.
VersionValues ==
    {JStr(s) : s \in Strings(MaxVersionLen)} \cup {PyNone, JNum(1), JList(<<>>)}

\* The values drawn for the `self` entry.
Selfs ==
    {FullSelf(v) : v \in VersionValues}
        \cup {Without(FullSelf(V100), key) : key \in SelfKeys}
        \cup NonMappings

SampleSelfs == {FullSelf(V100), FullSelf(Vaaa), FullSelf(V10), FullSelf(JNum(1))}

Bare(s) == JObj("self" :> s)

\* Documents without a meta envelope.
BaseDocs == {Bare(s) : s \in Selfs} \cup {EmptyObj} \cup NonMappings

Metas == {Meta(EVENT), PyNone}

WrappedDocs == {Wrap(m, d) : m \in Metas, d \in BaseDocs}

\* Documents that have both a `self` entry and a `data` entry.
HybridDocs ==
    {JObj(("self" :> s1) @@ ("data" :> d)) :
        s1 \in {FullSelf(V100), FullSelf(V10)},
        d \in {Bare(FullSelf(V100)), Bare(FullSelf(V10)), PyNone}}

Docs == BaseDocs \cup WrappedDocs \cup HybridDocs

\* What the input file of a run of main holds.
MainFiles ==
    {Unreadable, NotJson, EmptyObj, JList(<<JNum(1)>>)}
        \cup {Bare(s) : s \in SampleSelfs}
        \cup {Wrap(Meta(EVENT), Bare(s)) : s \in SampleSelfs}
        \cup {JObj(("self" :> FullSelf(V100)) @@ ("data" :> Bare(FullSelf(V100))))}

AccessToken(v) == JObj("accessToken" :> v)

\* What the server answers to the token request.
TokenResponses ==
    {NetworkError, Response(FALSE, NotJson), Response(FALSE, AccessToken(JStr(<<"abcd">>)))}
        \cup {Response(TRUE, b) :
                b \in {NotJson, PyNone, JList(<<>>), JStr(<<"abcd">>), EmptyObj,
                       AccessToken(JStr(<<"abcd">>)), AccessToken(JStr(<<>>)),
                       AccessToken(JNum(123)), AccessToken(JNum(0)),
                       AccessToken(PyNone)}}

Success(v) == JObj("success" :> v)

\* What the server answers to a validation or deployment request.
PostBodies ==
    {NotJson, PyNone, JList(<<Success(JBool(TRUE))>>), JStr(<<"success">>), EmptyObj,
     JObj("errors" :> JList(<<>>)),
     Success(JBool(TRUE)), Success(JBool(FALSE)), Success(PyNone),
     Success(JNum(0)), Success(JNum(1)), Success(JStr(<<>>)),
     Success(JStr(<<"yes">>)), Success(JList(<<>>))}

PostResponses ==
    {NetworkError} \cup {Response(ok, b) : ok \in BOOLEAN, b \in PostBodies}

\* argparse: --type has choices ("event", "entity"); --token and --message
\* are optional strs.
CLIArguments ==
    [token_only : {FALSE},
     token : {PyNone, JStr(<<>>), JStr(<<"tok">>)},
     type : {EVENT, ENTITY},
     includes_meta : BOOLEAN,
     promote_to_dev : BOOLEAN,
     promote_to_prod : BOOLEAN,
     allow_patch : BOOLEAN,
     message : {PyNone, JStr(<<"msg">>)}]
    \cup
    [token_only : {TRUE},
     token : {PyNone, JStr(<<"tok">>)},
     type : {EVENT},
     includes_meta : {FALSE},
     promote_to_dev : {FALSE},
     promote_to_prod : {FALSE},
     allow_patch : {FALSE},
     message : {PyNone}]

\* The stype arguments drawn for a direct call of validate.
SchemaTypes == {EVENT, ENTITY, JStr(<<"abcd">>), JStr(<<>>), PyNone}

DefaultArgs ==
    [token_only |-> FALSE, token |-> PyNone, type |-> EVENT, includes_meta |-> FALSE,
     promote_to_dev |-> FALSE, promote_to_prod |-> FALSE, allow_patch |-> FALSE,
     message |-> PyNone]

(***************************************************************************)
(* Init: the entry point and its arguments.                                *)
(***************************************************************************)
InitMain ==
    /\ entry = "main"
    /\ pc = "main"
    /\ env_ok \in BOOLEAN
    /\ args \in CLIArguments
    /\ file \in MainFiles
    /\ token = PyNone
    /\ schema = PyNone

\* resolve(data_structure, includes_meta) called with any document and flag.
InitResolve ==
    /\ entry = "resolve"
    /\ pc = "resolve"
    /\ env_ok = TRUE
    /\ \E im \in BOOLEAN : args = [DefaultArgs EXCEPT !.includes_meta = im]
    /\ file = Unreadable
    /\ token = PyNone
    /\ schema \in Docs

\* validate(config, data_structure, auth_token, stype, contains_meta) called
\* with any schema type.
InitValidate ==
    /\ entry = "validate"
    /\ pc = "validate"
    /\ env_ok = TRUE
    /\ \E st \in SchemaTypes, cm \in BOOLEAN :
            args = [DefaultArgs EXCEPT !.type = st, !.includes_meta = cm]
    /\ file = Unreadable
    /\ token \in {JStr(<<>>), JStr(<<"tok">>)}
    /\ schema \in {EmptyObj, Bare(FullSelf(V100)), Wrap(Meta(EVENT), Bare(FullSelf(V100)))}

Init ==
    /\ \/ InitMain
       \/ InitResolve
       \/ InitValidate
    /\ spec = PyNone
    /\ http = <<>>
    /\ logs = <<>>
    /\ stdout = <<>>
    /\ ret = PyNone

(***************************************************************************)
(* The steps of a run.                                                     *)
(***************************************************************************)
\* sys.exit(code), or main returning (code 0).
Exit(code) == pc' = "done" /\ ret' = JNum(code)

\* An exception escapes the entry point.
Crash(exc) == pc' = "crashed" /\ ret' = [k |-> "exception", exc |-> exc]

\* The entry point returns v; main maps flow's result to the exit code.
FlowReturn(b) == IF b THEN Exit(0) ELSE Exit(1)

\* main: get_config and the branch on --token-only.
main ==
    /\ pc = "main"
    /\ IF ~env_ok
       THEN /\ logs' = logs \o <<"get_config: environment not set">>
            /\ Exit(1)
       ELSE /\ logs' = logs
            /\ pc' = IF args.token_only THEN "token_only" ELSE "flow_token"
            /\ ret' = ret
    /\ UNCHANGED <<entry, env_ok, args, file, token, schema, spec, http, stdout>>

\* main, token-only mode: get_token, then the token on stdout.
main_token_only ==
    /\ pc = "token_only"
    /\ \E resp \in TokenResponses :
        LET t == get_token(resp) IN
        /\ token' = t.val
        /\ http' = http \o <<Exchange(TokenRequest, resp)>>
        /\ logs' = logs \o t.logs
        /\ IF ~Truthy(t.val)
           THEN Exit(1) /\ stdout' = stdout
           ELSE IF t.val.k = "str"
           THEN Exit(0) /\ stdout' = stdout \o <<t.val>>
           ELSE Crash("TypeError") /\ stdout' = stdout
    /\ UNCHANGED <<entry, env_ok, args, file, schema, spec>>

\* flow: `token = args.token if args.token else get_token(config)`.
flow_token ==
    /\ pc = "flow_token"
    /\ IF Truthy(args.token)
       THEN token' = args.token /\ UNCHANGED <<http, logs>>
       ELSE \E resp \in TokenResponses :
                LET t == get_token(resp) IN
                /\ token' = t.val
                /\ http' = http \o <<Exchange(TokenRequest, resp)>>
                /\ logs' = logs \o t.logs
    /\ pc' = "flow_parse"
    /\ UNCHANGED <<entry, env_ok, args, file, schema, spec, stdout, ret>>

\* flow: `schema = parse_input_file(args.file)`.
flow_parse ==
    /\ pc = "flow_parse"
    /\ LET p == parse_input_file(file) IN
        /\ schema' = p.val
        /\ logs' = logs \o p.logs
    /\ pc' = "resolve"
    /\ UNCHANGED <<entry, env_ok, args, file, token, spec, http, stdout, ret>>

\* `spec = resolve(schema, args.includes_meta)`: in flow, or called directly.
call_resolve ==
    /\ pc = "resolve"
    /\ LET r == resolve(schema, args.includes_meta) IN
        /\ logs' = logs \o r.logs
        /\ spec' = r.val
        /\ IF r.exc # "none"
           THEN Crash(r.exc)
           ELSE IF entry = "resolve"
           THEN pc' = "done" /\ ret' = r.val
           ELSE pc' = "flow_guard" /\ ret' = ret
    /\ UNCHANGED <<entry, env_ok, args, file, token, schema, http, stdout>>

\* A faulty FlowGuard that does not look at the token.
FlowGuardWithoutToken(tok, sch, sp) == ~Truthy(sch) \/ ~Truthy(sp)

\* flow: the condition of `if not token or not schema or not spec`.
FlowGuard(tok, sch, sp) == ~Truthy(tok) \/ ~Truthy(sch) \/ ~Truthy(sp)

\* flow: `if not token or not schema or not spec: return False`, then the
\* branch on the promote flags.
flow_guard ==
    /\ pc = "flow_guard"
    /\ IF FlowGuard(token, schema, spec)
       THEN FlowReturn(FALSE)
       ELSE /\ pc' = IF args.promote_to_dev \/ args.promote_to_prod
                     THEN "promote" ELSE "validate"
            /\ ret' = ret
    /\ UNCHANGED <<entry, env_ok, args, file, token, schema, spec, http, logs, stdout>>

\* flow: `message = args.message if args.message else "No message provided"`.
FlowMessage(a) ==
    IF Truthy(a.message) THEN a.message ELSE JStr(<<"No message provided">>)

\* flow: `to_production=args.promote_to_prod`.
FlowToProduction(a) == a.promote_to_prod

\* flow: `return promote(config, spec, token, message, ...)`.
flow_promote ==
    /\ pc = "promote"
    /\ \E resp \in PostResponses :
        LET r == promote(spec, token, FlowMessage(args), FlowToProduction(args),
                         args.allow_patch, resp) IN
        /\ http' = http \o r.http
        /\ logs' = logs \o r.logs
        /\ FlowReturn(r.val)
    /\ UNCHANGED <<entry, env_ok, args, file, token, schema, spec, stdout>>

\* `validate(config, schema, token, schema_type, args.includes_meta)`: in flow,
\* or called directly.
call_validate ==
    /\ pc = "validate"
    /\ \E resp \in PostResponses :
        LET r == validate(schema, token, args.type, args.includes_meta, resp) IN
        /\ http' = http \o r.http
        /\ logs' = logs \o r.logs
        /\ IF entry = "validate"
           THEN pc' = "done" /\ ret' = JBool(r.val)
           ELSE FlowReturn(r.val)
    /\ UNCHANGED <<entry, env_ok, args, file, token, schema, spec, stdout>>

Next ==
    \/ main
    \/ main_token_only
    \/ flow_token
    \/ flow_parse
    \/ call_resolve
    \/ flow_guard
    \/ flow_promote
    \/ call_validate

Spec == Init /\ [][Next]_vars

(***************************************************************************)
(* Properties.                                                             *)
(***************************************************************************)
Last(s) == s[Len(s)]

\* resolve was called directly and has finished (returned or raised).
ResolveActed == entry = "resolve" /\ pc \in {"done", "crashed"}
\* ... and returned.
ResolveReturned == entry = "resolve" /\ pc = "done"
\* ... and returned the failure value None.
ResolveFailed == ResolveReturned /\ ret = PyNone

IsDeployment(v) == v.k = "Deployment"

Digits == {"0", "1", "2", "3", "4", "5", "6", "7", "8", "9"}

\* The symbols s are the decimal notation of a non-negative integer.
IsNumeral(s) == s # <<>> /\ \A i \in 1..Len(s) : s[i] \in Digits

DigitVal(c) == CHOOSE n \in 0..9 : DigitSyms[n + 1] = c

\* The integer a numeral denotes.
RECURSIVE NumeralVal(_)
NumeralVal(s) ==
    IF s = <<>> THEN 0
    ELSE 10 * NumeralVal(SubSeq(s, 1, Len(s) - 1)) + DigitVal(s[Len(s)])

\* v is a str of exactly three '-'-separated components.
HasThreeParts(v) == v.k = "str" /\ Len(SplitDash(v.s)) = 3

\* v is a str "M-R-A" of three non-negative integers.
IsNumericVersion(v) ==
    /\ HasThreeParts(v)
    /\ \A i \in 1..3 : IsNumeral(SplitDash(v.s)[i])

\* s is a mapping with the four fields.
HasFourFields(s) == s.k = "obj" /\ SelfKeys \subseteq DOMAIN s.f

\* d is a mapping with an entry `self`.
HasSelf(d) == d.k = "obj" /\ "self" \in DOMAIN d.f

\* d is a mapping whose entry `data` is a mapping with an entry `self`.
HasDataSelf(d) == d.k = "obj" /\ "data" \in DOMAIN d.f /\ HasSelf(d.f["data"])

\* A bare document: the self-describing section is at document.self.
IsBare(d) == HasSelf(d) /\ d.f["self"].k = "obj"

\* A wrapped document: {meta, data}.
IsWrapped(d) == d.k = "obj" /\ DOMAIN d.f = {"meta", "data"}

\* C1: resolve(d, includes_meta=False) returns a Deployment if and only if d is
\* a mapping whose 'self' entry has the four fields vendor, name, format and
\* version and the version is a str of exactly three '-'-separated components
\* that are each a non-negative integer; otherwise it returns None.
\* Stated on the calls that return.
C1_ResolveIffNumericVersion ==
    (ResolveReturned /\ ~args.includes_meta) =>
        /\ IsDeployment(ret) <=>
                /\ HasSelf(schema)
                /\ HasFourFields(schema.f["self"])
                /\ IsNumericVersion(schema.f["self"].f["version"])
        /\ ~IsDeployment(ret) => ret = PyNone

\* C2 as stated: resolve(bareDoc, True) fails for every bare document and
\* resolve(wrappedDoc, False) fails for every wrapped document; only a
\* matching pair of flag and shape can succeed.
C2_MismatchAlwaysFails ==
    ResolveActed =>
        /\ (args.includes_meta /\ IsBare(schema)) => ResolveFailed
        /\ (~args.includes_meta /\ IsWrapped(schema)) => ResolveFailed
        /\ IsDeployment(spec) =>
                IF args.includes_meta THEN HasDataSelf(schema) ELSE HasSelf(schema)

\* C2 as amended: resolve(bareDoc, True) fails for every bare document that
\* has no self-describing section at data.self, resolve(wrappedDoc, False)
\* fails for every wrapped document {meta, data}, and only a matching pair of
\* flag and shape can succeed.
C2_MismatchFailsUnlessBothShapes ==
    ResolveActed =>
        /\ (args.includes_meta /\ IsBare(schema) /\ ~HasDataSelf(schema)) => ResolveFailed
        /\ (~args.includes_meta /\ IsWrapped(schema)) => ResolveFailed
        /\ IsDeployment(spec) =>
                IF args.includes_meta THEN HasDataSelf(schema) ELSE HasSelf(schema)

\* A complete bare document, resolved with includes_meta=True, failed.
C2_Witness ==
    /\ ResolveFailed
    /\ args.includes_meta
    /\ schema = Bare(FullSelf(V100))

\* How the direct call of resolve ended: the value returned, or the exception.
ResolveOutcome ==
    [exc |-> IF pc = "crashed" THEN ret.exc ELSE "none", val |-> spec]

SameOutcome(r, o) == r.exc = o.exc /\ r.val = o.val

\* C3: for every document d and every meta value, resolve({meta, data: d}, True)
\* has the outcome of resolve(d, False): the same Deployment, or failure in
\* both.  Checked in both directions: against the call resolve(d, False) made,
\* and against the call resolve({meta, data: d}, True) made.
C3_WrappedResolvesLikeBare ==
    ResolveActed =>
        /\ ~args.includes_meta =>
                \A m \in Metas : SameOutcome(resolve(Wrap(m, schema), TRUE), ResolveOutcome)
        /\ (args.includes_meta /\ IsWrapped(schema)) =>
                SameOutcome(resolve(schema.f["data"], FALSE), ResolveOutcome)

\* A wrapped document resolved with includes_meta=True to a Deployment.
C3_Witness ==
    /\ ResolveReturned
    /\ args.includes_meta
    /\ IsWrapped(schema)
    /\ IsDeployment(ret)
    /\ ret = resolve(schema.f["data"], FALSE).val

\* A validation or deployment request was answered and the run has ended.
PostAnswered ==
    /\ pc = "done"
    /\ http # <<>>
    /\ Last(http).req.method = "POST"
    /\ Last(http).resp.k = "Response"

\* The entry point reported success.
Succeeded == IF entry = "main" THEN ret = JNum(0) ELSE ret = JBool(TRUE)
\* The entry point reported failure.
Failed == IF entry = "main" THEN ret = JNum(1) ELSE ret = JBool(FALSE)

\* The values of `success` that Python takes as true, among those the server sends.
TruthySuccess == {JBool(TRUE), JNum(1), JStr(<<"yes">>)}

\* C4: handle_response returns True if and only if the status is in the
\* success range, the body parses as JSON and is an object with a truthy
\* 'success' field; it returns False otherwise.
C4_HandleResponseIff ==
    PostAnswered =>
        LET r == Last(http).resp
            good == /\ r.ok
                    /\ r.body.k = "obj"
                    /\ "success" \in DOMAIN r.body.f
                    /\ r.body.f["success"] \in TruthySuccess
        IN  IF good THEN Succeeded ELSE Failed

\* validate, called directly, got {"success": 1} with a success status and
\* returned True.
C4_Witness ==
    /\ PostAnswered
    /\ entry = "validate"
    /\ Last(http).resp = Response(TRUE, Success(JNum(1)))
    /\ ret = JBool(TRUE)

\* C5: validate called with a schema type outside {"event", "entity"}
\* (None included) returns False and issues no HTTP call, whatever the
\* document, the token and the contains_meta flag.
C5_BadTypeNoCall ==
    (entry = "validate" /\ args.type \notin {JStr(<<"event">>), JStr(<<"entity">>)}) =>
        /\ http = <<>>
        /\ pc = "done" => ret = JBool(FALSE)

\* validate was called with stype=None and returned False without a call.
C5_Witness ==
    /\ entry = "validate"
    /\ pc = "done"
    /\ args.type = PyNone
    /\ ret = JBool(FALSE)
    /\ http = <<>>
    /\ logs # <<>>

\* The deployment requests sent so far.
PromoteRequests == {i \in DOMAIN http : http[i].req.url = DeploymentUrl}

\* C6: every promote request carries source VALIDATED and target DEV when
\* to_production is false and source DEV and target PROD when it is true,
\* never another pair, also when flow runs with both promote flags set.
C6_PromoteSourceTarget ==
    \A i \in PromoteRequests :
        LET body == http[i].req.json.f IN
        IF args.promote_to_prod
        THEN body["source"] = JStr(<<"DEV">>) /\ body["target"] = JStr(<<"PROD">>)
        ELSE body["source"] = JStr(<<"VALIDATED">>) /\ body["target"] = JStr(<<"DEV">>)

\* flow ran with both promote flags set and sent DEV -> PROD.
C6_Witness ==
    /\ PromoteRequests # {}
    /\ args.promote_to_dev
    /\ args.promote_to_prod
    /\ Last(http).req.json.f["source"] = DEV
    /\ Last(http).req.json.f["target"] = PROD

\* get_token was called: the first exchange is the token request.
TokenFetched == http # <<>> /\ http[1].req.url = TokenUrl

\* C7: get_token returns a token if and only if the network call completes,
\* the body parses as a JSON object and the object has a str field
\* 'accessToken'; every other outcome, an accessToken of another type
\* included, gives None.
C7_TokenIffStringAccessToken ==
    TokenFetched =>
        LET r == http[1].resp
            good == /\ r.k = "Response"
                    /\ r.body.k = "obj"
                    /\ "accessToken" \in DOMAIN r.body.f
                    /\ r.body.f["accessToken"].k = "str"
        IN  IF good THEN token = r.body.f["accessToken"] ELSE token = PyNone

\* The validation requests sent so far.
ValidateRequests == {i \in DOMAIN http : http[i].req.url = ValidationUrl}

\* C8: for a valid schema type the body validate posts is exactly
\* {meta: {hidden: false, schemaType: <type>, customData: {}}, data: <document>}
\* when contains_meta is false, and exactly the document when it is true.
C8_ValidateBody ==
    \A i \in ValidateRequests :
        http[i].req.json =
            IF args.includes_meta
            THEN schema
            ELSE [k |-> "obj",
                  f |-> ("meta" :> [k |-> "obj",
                                    f |-> ("hidden" :> [k |-> "bool", b |-> FALSE])
                                          @@ ("schemaType" :> args.type)
                                          @@ ("customData" :> [k |-> "obj", f |-> <<>>])])
                        @@ ("data" :> schema)]

\* validate was called with contains_meta=True and posted the document as is.
C8_Witness ==
    /\ entry = "validate"
    /\ pc = "done"
    /\ args.includes_meta
    /\ args.type = ENTITY
    /\ ValidateRequests = {1}
    /\ http[1].req.json = schema
    /\ schema # EmptyObj

\* C9: for every version string "M-R-A" of integers that resolve accepts, the
\* Version has model, revision and addition equal to the integers M, R and A,
\* and serialising it gives back the original string.
C9_VersionRoundTrip ==
    (ResolveReturned /\ IsDeployment(ret) /\ ~args.includes_meta
        /\ IsNumericVersion(schema.f["self"].f["version"])) =>
        LET original == schema.f["self"].f["version"]
            parts == SplitDash(original.s)
        IN  /\ ret.version.model = JNum(NumeralVal(parts[1]))
            /\ ret.version.revision = JNum(NumeralVal(parts[2]))
            /\ ret.version.addition = JNum(NumeralVal(parts[3]))
            /\ JStr(VersionStr(ret.version)) = original

IsGet(x) == x.req.method = "GET" /\ x.req.url = TokenUrl
IsPost(x) == x.req.method = "POST" /\ x.req.url \in {ValidationUrl, DeploymentUrl}

\* The request is one of validate, promote VALIDATED -> DEV, promote DEV -> PROD.
IsOneOperation(x) ==
    \/ x.req.url = ValidationUrl
    \/ /\ x.req.url = DeploymentUrl
       /\ <<x.req.json.f["source"], x.req.json.f["target"]>>
            \in {<<JStr(<<"VALIDATED">>), JStr(<<"DEV">>)>>,
                 <<JStr(<<"DEV">>), JStr(<<"PROD">>)>>}

\* C10: in every run of flow the HTTP calls are at most one token GET (none
\* when the operator supplied a non-empty token) followed by at most one POST,
\* which is one of validate, promote VALIDATED -> DEV and promote DEV -> PROD;
\* the POST is issued only with a non-empty token and a document that was read
\* and resolved, and no call is repeated.
C10_FlowCallSequence ==
    (entry = "main" /\ ~args.token_only) =>
        /\ Len(http) <= 2
        /\ \A i \in DOMAIN http : IsGet(http[i]) \/ IsPost(http[i])
        /\ \A i \in DOMAIN http : IsGet(http[i]) => i = 1 /\ ~Truthy(args.token)
        /\ \A i \in DOMAIN http : IsPost(http[i]) =>
                /\ i = Len(http)
                /\ pc = "done"
                /\ IsOneOperation(http[i])
                /\ Truthy(token)
                /\ token.k = "str" => token.s # <<>>
                /\ schema = file
                /\ schema.k = "obj"
                /\ IsDeployment(spec)
                /\ ~Truthy(args.token) => (i = 2 /\ IsGet(http[1]))

\* A run of flow fetched a token and then sent one deployment request.
C10_Witness ==
    /\ entry = "main"
    /\ ~args.token_only
    /\ pc = "done"
    /\ Len(http) = 2
    /\ IsGet(http[1])
    /\ http[2].req.url = DeploymentUrl
    /\ ret = JNum(0)

\* main ended by sys.exit(1): get_config failed, the token was falsy in
\* token-only mode, or flow returned False.
MainFailed == entry = "main" /\ pc = "done" /\ ret = JNum(1)

\* C11: every failure path logs before terminating: whenever a run of main
\* (token-only mode or validate/promote mode) ends with the failure outcome,
\* at least one error was logged earlier in that run, also when the token is
\* falsy without get_token having logged.
C11_FailureIsLogged == MainFailed => logs # <<>>

\* C12: resolve never crashes: for every document and either flag it returns
\* a Deployment or None and lets no exception escape, also when the 'version'
\* field is not a str.
C12_ResolveNeverRaises ==
    ResolveActed =>
        /\ pc = "done"
        /\ IsDeployment(ret) \/ ret = PyNone

====
